---- MODULE Spec2Model ----
(***************************************************************************)
(* The WAD codec of wrench (src/src/formats/wad.cpp): the multi-threaded   *)
(* compressor compress_wad, the per-block encoder                          *)
(* compress_wad_intermediate with find_match, encode_match_packet and      *)
(* encode_literal_packet, the packet length helper get_wad_packet_size and *)
(* the decompressor decompress_wad_n.                                      *)
(*                                                                         *)
(* Byte buffers are sequences over 0..255; the C++ index i of a buffer is  *)
(* element i+1 of the sequence.                                            *)
(***************************************************************************)
EXTENDS Integers, Sequences, FiniteSets, TLC

(***************************************************************************)
(* Bounds of the model.                                                    *)
(***************************************************************************)
\* Longest input enumerated exhaustively over the alphabet SmallBytes.
MaxSmallLen == 5
\* The medium inputs have the lengths of MedLens, each plus 0..MedSpan.
MedSpan == 1
\* Largest bytes_to_decompress passed to decompress_wad_n.
MaxN == 2
\* The inputs that reach the first 0x2000 boundary have 8046 + 0..BigSpan
\* bytes.
BigSpan == 1
\* The number of 288-byte matches that fill dest in the deep stream handed
\* to the decompressor, once before its matches that look back 0x4000 bytes
\* and once more before those that look back 0x8000 bytes.
DeepMatches == 58

(***************************************************************************)
(* Program constants.                                                      *)
(***************************************************************************)
DO_NOT_INJECT_FLAG == 256
MAX_MATCH_SIZE == 256
MAX_LITERAL_SIZE == 273
MAX_LITTLE_MATCH_SIZE == 8
MAX_BIG_MATCH_SIZE == 33
MAX_LITTLE_MATCH_LOOKBACK == 2048
MAX_BIGGER_MATCH_LOOKBACK == 16384
\* 0x100 * thread_count is the minimum block size of the partition.
BLOCK_UNIT == 256
\* Size of the header, and the residue of the realignment points.
HEADER_SIZE == 16
\* The compressor realigns every 0x2000 bytes, the decompressor every 0x1000.
PAD_WINDOW == 8192
SKIP_WINDOW == 4096

(***************************************************************************)
(* Arithmetic helpers.                                                     *)
(***************************************************************************)
Min(a, b) == IF a < b THEN a ELSE b

\* Bitwise AND / OR of two naturals below 2^n.
RECURSIVE BitAnd(_, _, _)
BitAnd(a, b, n) ==
    IF n = 0 THEN 0
    ELSE (IF a % 2 = 1 /\ b % 2 = 1 THEN 1 ELSE 0)
         + 2 * BitAnd(a \div 2, b \div 2, n - 1)

RECURSIVE BitOr(_, _, _)
BitOr(a, b, n) ==
    IF n = 0 THEN 0
    ELSE (IF a % 2 = 1 \/ b % 2 = 1 THEN 1 ELSE 0)
         + 2 * BitOr(a \div 2, b \div 2, n - 1)

\* (variant: a char keeps seven bits)
ToByteSeven(x) == x % 128

\* A value stored into a std::vector<char> keeps its low 8 bits.
ToByte(x) == x % 256

\* uint32_t last_flag = (char) b: a char >= 0x80 sign-extends to
\* 0xFFFFFF80..0xFFFFFFFF.  A uint32_t is held as its two's-complement
\* int32 view, so those values are b - 256; U32Less is the unsigned <.
CharToU32(b) == IF b >= 128 THEN b - 256 ELSE b

U32Less(x, c) == x >= 0 /\ x < c

\* The sub-sequence of s holding the C++ indices [from, to).
Slice(s, from, to) == SubSeq(s, from + 1, to)

\* (variant: the byte after offset i is replaced)
SetAtNext(s, i, b) == [s EXCEPT ![i + 2] = b]

\* s with the byte at C++ index i replaced by b.
SetAt(s, i, b) == [s EXCEPT ![i + 1] = b]

\* The value r, with the value v of an earlier statement computed before r
\* is entered: the statements of a loop body are evaluated in program order.
EvalFirst(v, r) == IF v = v THEN r ELSE r

(***************************************************************************)
(* Source reads of the encoder.  The encoder reads through a raw pointer:  *)
(* an index at or beyond the end of the source buffer is an out-of-bounds  *)
(* read whose value g is whatever the heap holds there.                    *)
(***************************************************************************)
SrcByte(s, g, i) == IF i < Len(s) THEN s[i + 1] ELSE g

SrcRange(s, g, from, n) ==
    [i \in 1..n |-> SrcByte(s, g, from + i - 1)] \o << >>

sub_clamped(lhs, rhs) == IF rhs > lhs THEN 0 ELSE lhs - rhs

(***************************************************************************)
(* find_match                                                              *)
(***************************************************************************)
\* The byte-compare loop "for(; k < max_match_size; k++)" run from k = lo:
\* the first k in lo..hi-1 whose bytes differ, hi when there is none.  The
\* range is searched front half first, so the recursion is log-deep.
RECURSIVE CountEqual(_, _, _, _, _, _)
CountEqual(s, g, target, j, lo, hi) ==
    IF lo >= hi THEN lo
    ELSE IF hi - lo = 1
    THEN (IF SrcByte(s, g, target + lo) = SrcByte(s, g, j + lo)
          THEN hi ELSE lo)
    ELSE LET mid == (lo + hi) \div 2
             k == CountEqual(s, g, target, j, lo, mid)
         IN  IF k < mid THEN k ELSE CountEqual(s, g, target, j, mid, hi)

\* The value of k after the body of the j loop (0 when the 16-bit prefix
\* filter skips the candidate).
MatchLenAt(eob, s, g, target, j, max) ==
    IF ~eob /\ (SrcByte(s, g, j) # SrcByte(s, g, target)
                \/ SrcByte(s, g, j + 1) # SrcByte(s, g, target + 1))
    THEN 0
    ELSE CountEqual(s, g, target, j, IF eob THEN 0 ELSE 2,
                    IF eob THEN max ELSE (IF max < 2 THEN 2 ELSE max))

\* The candidates j of the j loop for target = src_pos + i that match 3
\* bytes or more.  A match of 3 or more equal bytes has an equal first
\* byte, and the candidates inside the buffer are told from those beyond
\* its end.
Candidates(eob, s, g, target, max) ==
    LET low == sub_clamped(target, MAX_BIGGER_MATCH_LOOKBACK)
        first == SrcByte(s, g, target)
    IN  {j \in low..(Min(target, Len(s)) - 1) :
            /\ s[j + 1] = first
            /\ MatchLenAt(eob, s, g, target, j, max) >= 3}
        \cup
        {j \in (IF low < Len(s) THEN Len(s) ELSE low)..(target - 1) :
            /\ g = first
            /\ MatchLenAt(eob, s, g, target, j, max) >= 3}

\* k for each of the candidates js.
MatchLengths(eob, s, g, target, max, js) ==
    [j \in js |-> MatchLenAt(eob, s, g, target, j, max)]

\* "if(k >= 3 && k > match_size)" over ascending j: the longest match, the
\* earliest j among equally long ones; no match when there is no candidate.
LongestEarliest(len) ==
    IF DOMAIN len = {}
    THEN [match_offset |-> 0, match_size |-> 0]
    ELSE LET best == CHOOSE m \in {len[j] : j \in DOMAIN len} :
                         \A j \in DOMAIN len : len[j] <= m
         IN  [match_offset |->
                  CHOOSE j \in DOMAIN len :
                      /\ len[j] = best
                      /\ \A j2 \in DOMAIN len : len[j2] = best => j <= j2,
              match_size |-> best]

\* (variant: no match is longer than a little match)
MaxMatchSizeLittle(eob, src_pos, src_end, i) ==
    IF eob THEN Min(MAX_LITTLE_MATCH_SIZE, src_end - src_pos - i)
    ELSE MAX_LITTLE_MATCH_SIZE

\* (variant: a match may be one byte longer than MAX_MATCH_SIZE)
MaxMatchSizePlusOne(eob, src_pos, src_end, i) ==
    IF eob THEN Min(MAX_MATCH_SIZE + 1, src_end - src_pos - i)
    ELSE MAX_MATCH_SIZE + 1

\* max_match_size of find_match for the window of src_pos + i.
MaxMatchSize(eob, src_pos, src_end, i) ==
    IF eob THEN Min(MAX_MATCH_SIZE, src_end - src_pos - i)
    ELSE MAX_MATCH_SIZE

\* The j loop for one i, entered with match_size = 0.
ScanWindow(eob, s, g, src_pos, src_end, i) ==
    LongestEarliest(
        MatchLengths(eob, s, g, src_pos + i,
                     MaxMatchSize(eob, src_pos, src_end, i),
                     Candidates(eob, s, g, src_pos + i,
                                MaxMatchSize(eob, src_pos, src_end, i))))

\* The i loop "for(i = 0; i < max_literal_size; i++)" over lo..hi-1: the
\* first i whose window holds a match, hi when there is none (front half
\* first, as above).
RECURSIVE FirstMatchingI(_, _, _, _, _, _, _)
FirstMatchingI(eob, s, g, src_pos, src_end, lo, hi) ==
    IF lo >= hi THEN hi
    ELSE IF hi - lo = 1
    THEN (IF ScanWindow(eob, s, g, src_pos, src_end, lo).match_size >= 3
          THEN lo ELSE hi)
    ELSE LET mid == (lo + hi) \div 2
             i == FirstMatchingI(eob, s, g, src_pos, src_end, lo, mid)
         IN  IF i < mid THEN i
             ELSE FirstMatchingI(eob, s, g, src_pos, src_end, mid, hi)

\* max_literal_size of find_match.
MaxLiteralSize(eob, src_pos, src_end) ==
    IF eob THEN Min(MAX_LITERAL_SIZE, src_end - src_pos)
    ELSE MAX_LITERAL_SIZE

\* The result of find_match once the i loop has ended with literal_size = i
\* and the window of i holds the match m.
MatchResult(max_literal_size, i, m) ==
    IF i >= max_literal_size
    THEN [literal_size |-> max_literal_size,
          match_offset |-> 0, match_size |-> 0]
    ELSE [literal_size |-> i,
          match_offset |-> m.match_offset,
          match_size |-> m.match_size]

\* The result of find_match when the i loop ends at i.
MatchFoundAt(eob, s, g, src_pos, src_end, i) ==
    MatchResult(MaxLiteralSize(eob, src_pos, src_end), i,
                ScanWindow(eob, s, g, src_pos, src_end, i))

find_match(eob, s, g, src_pos, src_end) ==
    MatchFoundAt(eob, s, g, src_pos, src_end,
                 FirstMatchingI(eob, s, g, src_pos, src_end, 0,
                                MaxLiteralSize(eob, src_pos, src_end)))

(***************************************************************************)
(* The packet encoders.  An encoder state e is the record                  *)
(*   buffer    thread_dest.buffer                                          *)
(*   pos       thread_dest.pos                                             *)
(*   last_flag                                                             *)
(*   src_pos                                                               *)
(***************************************************************************)
\* (variant: the dummy has the flag of a pad packet)
DUMMY_PACKET_FLAG_12 == <<18, 0, 0>>

\* const std::vector<char> DUMMY_PACKET = { 0x11, 0, 0 }
DUMMY_PACKET == <<17, 0, 0>>

encode_match_packet(e, match_offset, match_size) ==
    LET lookback == e.src_pos - match_offset
        delta == e.src_pos - match_offset - 1
        packet ==
            IF match_size <= MAX_LITTLE_MATCH_SIZE
               /\ lookback <= MAX_LITTLE_MATCH_LOOKBACK
            THEN << ToByte(BitOr((match_size - 1) * 32,
                                 ToByte(delta % 8) * 4, 16)),
                    ToByte(delta \div 8) >>
            ELSE (IF match_size > MAX_BIG_MATCH_SIZE
                  THEN << 32, ToByte(match_size - 33) >>
                  ELSE << ToByte(BitOr(32, match_size - 2, 16)) >>)
                 \o << ToByte(ToByte(delta % 64) * 4),
                       ToByte(delta \div 64) >>
        buf == e.buffer \o packet
    IN  [buffer |-> buf,
         pos |-> e.pos,
         last_flag |-> CharToU32(buf[e.pos + 1]),
         src_pos |-> e.src_pos + match_size]

\* if(last_flag < 0x10): the packet before the literal is a literal.
FollowsLiteralNever(last_flag) == FALSE

FollowsLiteral(last_flag) == U32Less(last_flag, 16)

\* last_flag = 0x11; dest.buffer.insert(..., DUMMY_PACKET...);
\* dest.pos = dest.buffer.size()
PushDummy(e) ==
    [e EXCEPT !.last_flag = 17,
              !.buffer = e.buffer \o DUMMY_PACKET,
              !.pos = Len(e.buffer) + 3]

encode_literal_packet(e, s, g, literal_size) ==
    LET e1 == IF FollowsLiteral(e.last_flag) THEN PushDummy(e) ELSE e
        raw == SrcRange(s, g, e.src_pos, literal_size)
    IN  IF literal_size <= 3
        THEN LET e2 == IF e1.last_flag = DO_NOT_INJECT_FLAG
                       THEN PushDummy(e1) ELSE e1
                 \* dest.buffer[dest.pos - 2] |= literal_size
                 patched == SetAt(e2.buffer, e2.pos - 2,
                                  ToByte(BitOr(e2.buffer[e2.pos - 1],
                                               literal_size, 8)))
             IN  [buffer |-> patched \o raw,
                  pos |-> e2.pos,
                  last_flag |-> DO_NOT_INJECT_FLAG,
                  src_pos |-> e2.src_pos + literal_size]
        ELSE LET head == IF literal_size <= 18
                         THEN << ToByte(literal_size - 3) >>
                         ELSE << 0, ToByte(literal_size - 18) >>
                 buf == e1.buffer \o head \o raw
             IN  [buffer |-> buf,
                  pos |-> e1.pos,
                  last_flag |-> CharToU32(buf[e1.pos + 1]),
                  src_pos |-> e1.src_pos + literal_size]

(***************************************************************************)
(* compress_wad_intermediate                                               *)
(***************************************************************************)
\* The state a worker starts from.
EncoderInit(src_pos) ==
    [buffer |-> << >>, pos |-> 0,
     last_flag |-> DO_NOT_INJECT_FLAG, src_pos |-> src_pos]

\* "if(match.match_size > 0)" after the literal l of an iteration:
\* thread_dest.pos = thread_dest.buffer.size() and the match packet.
EncodeMatchAfter(l, match) ==
    IF match.match_size > 0
    THEN encode_match_packet([l EXCEPT !.pos = Len(l.buffer)],
                             match.match_offset, match.match_size)
    ELSE l

\* thread_dest.pos = thread_dest.buffer.size() at the end of an iteration.
SeekEnd(e) == [e EXCEPT !.pos = Len(e.buffer)]

\* The body of the while loop of compress_wad_intermediate for the result
\* match of find_match.
EncodePackets(e, s, g, match) ==
    SeekEnd(IF match.literal_size = 0
            THEN encode_match_packet(e, match.match_offset, match.match_size)
            ELSE EncodeMatchAfter(
                     encode_literal_packet(e, s, g, match.literal_size),
                     match))

\* One iteration of the while loop of compress_wad_intermediate.
EncodeIteration(e, s, g, src_end) ==
    EncodePackets(e, s, g,
                  find_match(e.src_pos + MAX_MATCH_SIZE >= src_end,
                             s, g, e.src_pos, src_end))

\* The whole loop of compress_wad_intermediate from the state e on, when
\* every out-of-bounds read of the source yields g: the state it ends in,
\* and the buffer it moves to *intermediate.
RECURSIVE EncoderAtEnd(_, _, _, _)
EncoderAtEnd(e, s, g, src_end) ==
    IF e.src_pos < src_end
    THEN EncoderAtEnd(EncodeIteration(e, s, g, src_end), s, g, src_end)
    ELSE e

RECURSIVE EncodeBlock(_, _, _, _)
EncodeBlock(e, s, g, src_end) ==
    IF e.src_pos < src_end
    THEN EncodeBlock(EncodeIteration(e, s, g, src_end), s, g, src_end)
    ELSE e.buffer

(***************************************************************************)
(* get_wad_packet_size: the size of the packet at C++ index off of s, with *)
(* bytes_left bytes from off to the end; DoubleLiteralThrown when it       *)
(* throws "Intermediate buffer corrupted (double literal)".                *)
(***************************************************************************)
DoubleLiteralThrown == 0 - 1

\* (variant: the tiny literal size is read from the last byte of the packet)
TinySizeInLastByte(s, off, size_of_packet) ==
    BitAnd(s[off + size_of_packet - 1 + 1], 3, 8)

\* src[size_of_packet - 2] & 3
TinySize(s, off, size_of_packet) ==
    BitAnd(s[off + size_of_packet - 2 + 1], 3, 8)

get_wad_packet_size(s, off, bytes_left) ==
    LET flag_byte == s[off + 1]
    IN  IF flag_byte < 16
        THEN LET size_of_packet ==
                     IF flag_byte # 0 THEN 1 + flag_byte + 3
                     ELSE 1 + 1 + (s[off + 2] + 18)
             IN  IF size_of_packet < bytes_left
                    /\ s[off + size_of_packet + 1] < 16
                 THEN DoubleLiteralThrown
                 ELSE size_of_packet
        ELSE LET size_of_packet ==
                     IF flag_byte < 32
                     THEN 1 + (IF BitAnd(flag_byte, 7, 8) = 0 THEN 1 ELSE 0)
                            + 1 + 1
                     ELSE IF flag_byte < 64
                     THEN 1 + (IF BitAnd(flag_byte, 31, 8) = 0 THEN 1 ELSE 0)
                            + 1 + 1
                     ELSE 1 + 1
             IN  size_of_packet + TinySize(s, off, size_of_packet)

(***************************************************************************)
(* The stitching loop of compress_wad.  dest is a record [buffer, pos].    *)
(***************************************************************************)
\* (variant: the last byte of the header is a zero byte)
HEADER_BYTES_ZERO_END ==
    <<87, 65, 68, 0, 0, 0, 0, 87, 82, 69, 78, 67, 72, 48, 49, 0>>

\* "\x57\x41\x44\x00\x00\x00\x00\x57\x52\x45\x4e\x43\x48\x30\x31\x30"
HEADER_BYTES == <<87, 65, 68, 0, 0, 0, 0, 87, 82, 69, 78, 67, 72, 48, 49, 48>>

\* dest.write8(b): store at pos, growing the buffer by one when pos is its
\* end.
write8(d, b) ==
    [buffer |-> IF d.pos < Len(d.buffer) THEN SetAt(d.buffer, d.pos, b)
                ELSE Append(d.buffer, b),
     pos |-> d.pos + 1]

\* The offset of dest.pos inside its 0x2000 window.
WindowOffset(pos) == (pos + (PAD_WINDOW - HEADER_SIZE)) % PAD_WINDOW

\* (variants: the size of the insertion is left out; the comparison is >=)
NeedsPadStartOnly(pos, insert_size) ==
    WindowOffset(pos) > PAD_WINDOW - 3

NeedsPadInclusive(pos, insert_size) ==
    WindowOffset(pos) + insert_size >= PAD_WINDOW - 3

\* if(((dest.pos + 0x1ff0) % 0x2000) + insert_size > 0x2000 - 3)
NeedsPad(pos, insert_size) ==
    WindowOffset(pos) + insert_size > PAD_WINDOW - 3

\* (variant: no filler)
FillCountNone(pos) == 0

\* The number of 0xee bytes "while(dest.pos % 0x2000 != 0x10)" writes from
\* pos on.
FillCount(pos) == (PAD_WINDOW + HEADER_SIZE - (pos % PAD_WINDOW)) % PAD_WINDOW

\* The pad packet and its filler written at dest.pos (dest.pos is the end of
\* the buffer).
WritePad(d) ==
    LET n == FillCount(d.pos + 3)
    IN  [buffer |-> d.buffer \o <<18, 0, 0>> \o [k \in 1..n |-> 238],
         pos |-> d.pos + 3 + n]

\* (variant: every block gets a dummy before its first packet)
InsertDummyEveryBlock(i, ipos) == ipos = 0

\* bool insert_dummy = i != 0 && intermediate.pos == 0
InsertDummy(i, ipos) == i # 0 /\ ipos = 0

\* One iteration of "while(intermediate.pos < intermediate.size())" for
\* block i: the new dest, or the unchanged dest with thrown = TRUE when
\* get_wad_packet_size throws.
StitchPacketResult(d, inter, ipos, i) ==
    LET packet_size == get_wad_packet_size(inter, ipos, Len(inter) - ipos)
        insert_dummy == InsertDummy(i, ipos)
        insert_size == IF insert_dummy THEN packet_size + 3 ELSE packet_size
        d1 == IF NeedsPad(d.pos, insert_size) THEN WritePad(d) ELSE d
        d2 == IF insert_dummy
              THEN write8(write8(write8(d1, 17), 0), 0)
              ELSE d1
    IN  IF packet_size = DoubleLiteralThrown
        THEN [dest |-> d, size |-> 0, padded |-> FALSE, thrown |-> TRUE]
        ELSE [dest |-> [buffer |-> d2.buffer
                                   \o Slice(inter, ipos, ipos + packet_size),
                        pos |-> d2.pos + packet_size],
              size |-> packet_size,
              padded |-> NeedsPad(d.pos, insert_size),
              thrown |-> FALSE]

\* The inner loop "while(intermediate.pos < intermediate.size())" for block
\* i from intermediate.pos = ipos on: the dest it leaves, the packets it
\* has appended (log: dest.pos before and after the step, the packet size,
\* whether a seam dummy went in, the block i and intermediate.pos), and
\* whether get_wad_packet_size threw.
RECURSIVE StitchBlockFrom(_, _, _, _, _)
StitchBlockFrom(d, inter, i, ipos, log) ==
    IF ipos >= Len(inter)
    THEN [dest |-> d, log |-> log, thrown |-> FALSE]
    ELSE LET r == StitchPacketResult(d, inter, ipos, i)
         IN  IF r.thrown
             THEN [dest |-> d, log |-> log, thrown |-> TRUE]
             ELSE EvalFirst(log,
                      StitchBlockFrom(
                          r.dest, inter, i, ipos + r.size,
                          Append(log, [at |-> d.pos, end |-> r.dest.pos,
                                       size |-> r.size,
                                       dummy |-> InsertDummy(i, ipos),
                                       block |-> i, ipos |-> ipos])))

\* (variant: the size of the packets alone, without the header)
PatchTotalSizeNoHeader(d, total_size) ==
    LET d0 == [d EXCEPT !.pos = 3]
        d1 == write8(d0, (total_size - HEADER_SIZE) % 256)
        d2 == write8(d1, ((total_size - HEADER_SIZE) \div 256) % 256)
        d3 == write8(d2, ((total_size - HEADER_SIZE) \div 65536) % 256)
    IN  write8(d3, ((total_size - HEADER_SIZE) \div 16777216) % 256)

\* dest.seek(3); dest.write<uint32_t>(total_size), little-endian.
PatchTotalSize(d, total_size) ==
    LET d0 == [d EXCEPT !.pos = 3]
        d1 == write8(d0, total_size % 256)
        d2 == write8(d1, (total_size \div 256) % 256)
        d3 == write8(d2, (total_size \div 65536) % 256)
    IN  write8(d3, (total_size \div 16777216) % 256)

(***************************************************************************)
(* The array_stream primitives the decompressor uses.                      *)
(***************************************************************************)
\* src.read8() succeeds for each of the next k bytes from pos.
CanRead(s, pos, k) == pos + k <= Len(s)

\* dest.peek8(offset) reads inside the buffer (a size_t offset that wrapped
\* below zero is far beyond its end).
CanPeek(d, offset) == offset >= 0 /\ offset < Len(d)

\* wad_header: char magic[3]; uint32_t total_size (little-endian); 9 more
\* bytes.  src.read<wad_header>(0) needs the 16 bytes and leaves src.pos
\* behind them.
HeaderReadable(s) == Len(s) >= HEADER_SIZE

HeaderTotalSize(s) ==
    s[4] + 256 * s[5] + 65536 * s[6] + 16777216 * s[7]

\* (variant: only two bytes are compared)
validate_wad_two(s) == s[1] = 87 /\ s[2] = 65

\* std::memcmp(magic, "WAD", 3) == 0
validate_wad(s) == s[1] = 87 /\ s[2] = 65 /\ s[3] = 68

(***************************************************************************)
(* decompress_wad_n.  The result of decoding is a record                   *)
(*   src_pos  src.pos                                                      *)
(*   dest     dest.buffer (dest starts empty, so dest.pos is its length)   *)
(*   status   "ok", or the exception that ended the call                   *)
(***************************************************************************)
\* copy_bytes(dest, src, n) with src.pos = from.  It stops at the first
\* read8 that fails, the bytes copied until then stay in dest.
copy_bytes(d, s, from, n) ==
    IF CanRead(s, from, n)
    THEN [src_pos |-> from + n,
          dest |-> d \o Slice(s, from, from + n),
          status |-> "ok"]
    ELSE [src_pos |-> Len(s),
          dest |-> d \o Slice(s, from, Len(s)),
          status |-> "truncated"]

\* (variant: the bytes are read before any of them is written; a byte at or
\* beyond dest.pos reads as 0)
MatchCopySnapshot(d, chunk, lookback_offset, lo, hi) ==
    chunk \o [k \in 1..(hi - lo) |->
                 IF lookback_offset + lo + k - 1 < Len(d)
                 THEN d[lookback_offset + lo + k] ELSE 0]

\* "for(i = 0; i < bytes_to_copy; i++) dest.write8(dest.peek8(lookback + i))"
\* for i in lo..hi-1: chunk holds the bytes the loop has appended to d so
\* far, and a byte is read from d or from chunk, wherever lookback + i lies.
\* The front half is copied before the back half is entered.
RECURSIVE MatchCopy(_, _, _, _, _)
MatchCopy(d, chunk, lookback_offset, lo, hi) ==
    IF lo >= hi THEN chunk
    ELSE IF hi - lo = 1
    THEN Append(chunk,
                IF lookback_offset + lo < Len(d)
                THEN d[lookback_offset + lo + 1]
                ELSE chunk[lookback_offset + lo - Len(d) + 1])
    ELSE LET mid == (lo + hi) \div 2
             front == MatchCopy(d, chunk, lookback_offset, lo, mid)
         IN  EvalFirst(front,
                       MatchCopy(d, front, lookback_offset, mid, hi))

\* (variant: the comparison is <=)
NextIsLiteralInclusive(s, pos) == pos < Len(s) /\ s[pos + 1] <= 16

\* src.pos < src.buffer.size() && src.peek8() < 0x10
NextIsLiteral(s, pos) == pos < Len(s) /\ s[pos + 1] < 16

\* The literal branch (flag_byte < 0x10).
DecodeLiteral(s, pos, d) ==
    LET flag_byte == s[pos + 1]
    IN  IF flag_byte = 0 /\ ~CanRead(s, pos, 2)
        THEN [src_pos |-> Len(s), dest |-> d, status |-> "truncated"]
        ELSE LET num_bytes == IF flag_byte # 0 THEN flag_byte + 3
                              ELSE s[pos + 2] + 18
                 from == IF flag_byte # 0 THEN pos + 1 ELSE pos + 2
                 c == copy_bytes(d, s, from, num_bytes)
             IN  IF c.status # "ok" THEN c
                 ELSE IF NextIsLiteral(s, c.src_pos)
                 THEN [c EXCEPT !.status = "double_literal"]
                 ELSE c

\* (variant: no skip)
SkipPaddingNone(pos) == pos

\* (variant: the skip leaves src.pos at the flag byte of a 3-byte pad)
SkipPaddingBack(pos) == pos - 3

\* The position the padding skip "while(src.pos % 0x1000 != 0x10) src.pos++"
\* leaves src.pos at.
SkipPadding(pos) ==
    pos + ((SKIP_WINDOW + HEADER_SIZE - (pos % SKIP_WINDOW)) % SKIP_WINDOW)

\* The three match branches (flag_byte >= 0x10), the copy and the tiny
\* literal.
DecodeMatch(s, pos, d) ==
    LET flag_byte == s[pos + 1]
        typeC == flag_byte < 32
        typeB == flag_byte >= 32 /\ flag_byte < 64
        has_size_byte ==
            \/ typeC /\ BitAnd(flag_byte, 7, 8) = 0
            \/ typeB /\ BitAnd(flag_byte, 31, 8) = 0
        fields == 1 + (IF has_size_byte THEN 1 ELSE 0)
                    + (IF typeC \/ typeB THEN 2 ELSE 1)
        end == pos + fields
        \* the last two bytes read: b0 b1 (0x10-0x1f), b1 b2 (0x20-0x3f);
        \* the last one: b1 (0x40-0xff)
        p0 == s[end - 1]
        p1 == s[end]
        size_byte == s[pos + 2]
        position == (p0 \div 4) + p1 * 64
        far == IF BitAnd(flag_byte, 8, 8) # 0 THEN 16384 ELSE 0
        at_dest_pos == far + position = 0
        bytes_to_copy ==
            IF typeC
            THEN (IF has_size_byte THEN size_byte + 7
                  ELSE BitAnd(flag_byte, 7, 8))
                 + (IF at_dest_pos THEN 0 ELSE 2)
            ELSE IF typeB
            THEN (IF has_size_byte THEN size_byte + 31
                  ELSE BitAnd(flag_byte, 31, 8)) + 2
            ELSE (flag_byte \div 32) + 1
        lookback_offset ==
            IF typeC
            THEN (IF at_dest_pos THEN Len(d)
                  ELSE Len(d) - far - position - 16384)
            ELSE IF typeB
            THEN Len(d) - position - 1
            ELSE Len(d) - p1 * 8 - BitAnd(flag_byte \div 4, 7, 8) - 1
    IN  IF ~CanRead(s, pos, fields)
        THEN [src_pos |-> Len(s), dest |-> d, status |-> "truncated"]
        ELSE IF typeC /\ at_dest_pos /\ bytes_to_copy # 1
        THEN [src_pos |-> SkipPadding(end), dest |-> d, status |-> "ok"]
        ELSE IF bytes_to_copy # 1 /\ ~CanPeek(d, lookback_offset)
        THEN [src_pos |-> end, dest |-> d, status |-> "bad_lookback"]
        ELSE LET d1 == IF bytes_to_copy # 1
                       THEN d \o MatchCopy(d, << >>, lookback_offset,
                                           0, bytes_to_copy)
                       ELSE d
                 \* src.peek8(src.pos - 2) & 3
                 snd_pos == BitAnd(s[end - 1], 3, 8)
             IN  IF snd_pos # 0 THEN copy_bytes(d1, s, end, snd_pos)
                 ELSE [src_pos |-> end, dest |-> d1, status |-> "ok"]

\* The packet at pos sends the decoder into the "padding detected" branch.
TakesPadBranch(s, pos) ==
    /\ CanRead(s, pos, 3)
    /\ s[pos + 1] >= 16 /\ s[pos + 1] < 24
    /\ LET n == IF BitAnd(s[pos + 1], 7, 8) = 0 THEN 4 ELSE 3
       IN  /\ CanRead(s, pos, n)
           /\ s[pos + n - 1] \div 4 = 0
           /\ s[pos + n] = 0
           /\ BitAnd(s[pos + 1], 7, 8) # 1

\* One iteration of the while loop, started with src.pos = pos.
DecodePacket(s, pos, d) ==
    IF ~CanRead(s, pos, 1)
    THEN [src_pos |-> pos, dest |-> d, status |-> "truncated"]
    ELSE IF s[pos + 1] < 16 THEN DecodeLiteral(s, pos, d)
    ELSE DecodeMatch(s, pos, d)

\* (variant: the loop goes on while src.pos <= total_size)
DecodeContinuesInclusive(s, pos, d, bytes_to_decompress) ==
    /\ pos <= HeaderTotalSize(s)
    /\ (bytes_to_decompress = 0 \/ Len(d) < bytes_to_decompress)

\* The loop condition.
DecodeContinues(s, pos, d, bytes_to_decompress) ==
    /\ pos < HeaderTotalSize(s)
    /\ (bytes_to_decompress = 0 \/ Len(d) < bytes_to_decompress)

(***************************************************************************)
(* The inputs of the model.                                                *)
(***************************************************************************)
SmallBytes == {0, 1}

SmallInputs == UNION {[1..n -> SmallBytes] : n \in 0..MaxSmallLen}

\* n equal bytes; the bytes 0, 1, 2, ... (period 256); n bytes with few
\* repeated triples.
Run(b, n) == [i \in 1..n |-> b] \o << >>

Ramp(n) == [i \in 1..n |-> (i - 1) % 256] \o << >>

Noise(n) ==
    [i \in 1..n |-> (((((i - 1) * (i - 1)) % 65521) * (i - 1)) % 65521) % 256]
    \o << >>

\* Runs long enough for a big and a bigger match, literals long enough for
\* the one- and two-byte literal headers; inputs just beyond one and beyond
\* three blocks of 256 bytes.
MedInputs ==
    UNION {{Run(0, 19 + k), Run(0, 40 + k), Ramp(19 + k), Run(0, 257 + k),
            Ramp(257 + k), Noise(263 + k), Ramp(769 + k), Noise(769 + k)} :
               k \in 0..MedSpan}

Threads == {1, 2, 4, 8}

\* The medium inputs are compressed by one and by two threads.
MedThreads == {1, 2}

\* thread_count is an int: the calls with no thread and with a negative
\* count, on the empty input and on two short ones.
NoThreads == {0 - 1, 0}

NoThreadInputs == {<< >>, <<0>>, <<0, 0, 0, 0>>}

\* Inputs compressed by one thread: one byte (0xAA, 0xFF), ten equal bytes,
\* and 272 and 274 bytes with no repeated triple.
ScenarioInputs == {<<170>>, <<255>>, Run(1, 10), Noise(272), Noise(274)}

\* An input for two threads whose length is an exact multiple of
\* 256 * thread_count.
ExactInputs == {Ramp(512)}

\* An input for two threads whose block 0 (0x1f00 bytes with few repeated
\* triples) fills the first 0x2000 window of the output up to 0x1f8a, so
\* that the first packet of block 1 does not fit in it: the bytes of block
\* 1 repeat with period 256.
SeamInput(n) ==
    [i \in 1..n |->
        LET k == IF i <= 7936 THEN i - 1 ELSE 7936 + ((i - 7937) % 256)
        IN  (((k * k) % 65521) * k % 65521) % 256] \o << >>

SeamInputs == {SeamInput(15361)}

\* Inputs whose output reaches the first 0x2000 boundary: the last packet
\* ends 3 bytes before the boundary (8046 bytes), nearer to it (8047 bytes
\* and on), or beyond it (8100 bytes).
BigInputs == {Noise(8046 + k) : k \in 0..BigSpan} \cup {Noise(8100)}

(***************************************************************************)
(* Streams handed to the decompressor that compress_wad did not write.     *)
(***************************************************************************)
\* The concatenation of the sequences ss[lo + 1 .. hi].
RECURSIVE Flatten(_, _, _)
Flatten(ss, lo, hi) ==
    IF lo >= hi THEN << >>
    ELSE IF hi - lo = 1 THEN ss[hi]
    ELSE Flatten(ss, lo, (lo + hi) \div 2) \o Flatten(ss, (lo + hi) \div 2, hi)

\* A stream with the given magic, total_size, bytes 7..15 and packets.
StreamOf(magic, total_size, tag, packets) ==
    magic
    \o << total_size % 256, (total_size \div 256) % 256,
          (total_size \div 65536) % 256, (total_size \div 16777216) % 256 >>
    \o tag \o packets

\* A stream with the header compress_wad writes.
WadStream(packets) ==
    StreamOf(SubSeq(HEADER_BYTES, 1, 3), HEADER_SIZE + Len(packets),
             SubSeq(HEADER_BYTES, 8, 16), packets)

\* An 18-byte literal and a dummy: dest holds 18 bytes, the last packet is
\* not a literal.
SeedPrefix == <<15>> \o [i \in 1..18 |-> 100 + i] \o DUMMY_PACKET

\* A literal packet with its payload.
LiteralPacket(flag, size) ==
    IF flag # 0 THEN <<flag>> \o Run(77, flag + 3)
    ELSE <<0, size>> \o Run(77, size + 18)

\* The second-to-last byte of a match of the 0x10-0x3f families: a position
\* of 0, 1, 17 or 18 in its high bits, a tiny literal size in its low bits.
PosBytes == {0, 1, 3, 4, 68, 72}

\* One packet for each flag byte, with some values of each of its fields.
TestPackets ==
    {LiteralPacket(f, 0) : f \in 1..15}
    \cup {LiteralPacket(0, n) : n \in {0, 1}}
    \cup {<<f, b0, b1>> : f \in (17..23) \cup (25..31),
                          b0 \in PosBytes, b1 \in {0, 1}}
    \cup {<<f, n, b0, b1>> : f \in {16, 24}, n \in {0, 1},
                             b0 \in PosBytes, b1 \in {0, 1}}
    \cup {<<f, b1, b2>> : f \in 33..63, b1 \in PosBytes, b2 \in {0, 1}}
    \cup {<<32, n, b1, b2>> : n \in {0, 1}, b1 \in PosBytes, b2 \in {0, 1}}
    \cup {<<f, b1>> : f \in 64..255, b1 \in {0, 1, 2}}

\* What follows the packet: nothing, a little match, a literal.
Tails == {<< >>, <<64, 0, 7>>, <<2, 9, 9, 9, 9, 9>>}

PacketStreams ==
    {WadStream(SeedPrefix \o p \o t) : p \in TestPackets, t \in Tails}

\* Headers with a wrong magic or other bytes 7..15, sources shorter than a
\* header, a literal followed by a byte beyond total_size, and a literal
\* followed by a packet with the flag 0x10.
HeaderStreams ==
    {StreamOf(magic, HEADER_SIZE + 23, tag, SeedPrefix \o <<64, 0>>) :
        magic \in {<<87, 65, 68>>, <<87, 65, 0>>, <<87, 0, 68>>,
                   <<0, 65, 68>>, <<119, 97, 100>>},
        tag \in {SubSeq(HEADER_BYTES, 8, 16), Run(0, 9), Run(255, 9)}}
    \cup {<< >>, <<87, 65, 68>>, SubSeq(HEADER_BYTES, 1, 15),
          WadStream(<< >>)}
    \cup {StreamOf(<<87, 65, 68>>, HEADER_SIZE + 5,
                   SubSeq(HEADER_BYTES, 8, 16), <<1, 9, 9, 9, 9, 3>>),
          WadStream(<<1, 9, 9, 9, 9, 16, 0, 0, 0>>)}

\* The 0x10-0x1f matches look back 0x4000 bytes and more.  A match of that
\* family with position 1 or 65 and a tiny literal of 0, 1 or 3 bytes,
\* followed by its tiny literal:
DeepPacket(f, b0, b1) ==
    (IF f % 8 = 0 THEN <<f, 0>> ELSE <<f>>) \o <<b0, b1>> \o Run(9, b0 % 4)

\* such a match for each of the 8 flags from f on and each of these fields;
DeepPackets(f) ==
    Flatten([k \in 1..48 |->
                DeepPacket(f + ((k - 1) \div 6),
                           <<7, 5, 4>>[((k - 1) % 3) + 1],
                           ((k - 1) \div 3) % 2)],
            0, 48)

\* DeepMatches matches of 288 bytes with lookback 1.
DeepFill ==
    Flatten([k \in 1..DeepMatches |-> <<32, 255, 0, 0>>], 0, DeepMatches)

\* a 4-byte literal, the fill, the matches with flags 0x10..0x17, the fill
\* again, the matches with flags 0x18..0x1f, and the match 0x19 0x00 0x00
\* (position 0 with bit 3 set).
DeepStream ==
    WadStream(<<1, 9, 9, 9, 9>> \o DeepFill \o DeepPackets(16)
              \o DeepFill \o DeepPackets(24) \o <<25, 0, 0>>)

\* The match packet encode_match_packet writes for a match of match_size
\* bytes that starts lookback bytes behind src_pos.
EncodedMatch(match_size, lookback) ==
    encode_match_packet(EncoderInit(lookback), 0, match_size).buffer

\* Match sizes and lookbacks at the limits of the three forms of a match
\* packet and of their fields.
MatchSizes == <<3, 4, 8, 9, 32, 33, 34, 35, 255, 256>>

MatchLookbacks ==
    <<16384, 1, 2, 8, 9, 64, 65, 2047, 2048, 2049, 4096, 16383>>

\* A literal of 269 bytes with few repeated triples and DeepMatches matches
\* of 288 bytes with lookback 269: more than 0x4000 bytes of dest, of
\* period 269.
PeriodFill ==
    <<0, 251>> \o Noise(269)
    \o Flatten([k \in 1..DeepMatches |-> <<32, 255, 48, 4>>], 0, DeepMatches)

\* The packet of every such match,
MatchPackets ==
    [k \in 1..(Len(MatchSizes) * Len(MatchLookbacks)) |->
        EncodedMatch(MatchSizes[((k - 1) % Len(MatchSizes)) + 1],
                     MatchLookbacks[((k - 1) \div Len(MatchSizes)) + 1])]

\* the stream of the fill and these packets, and the offset of each of them
\* in it.
MatchStream ==
    WadStream(PeriodFill \o Flatten(MatchPackets, 0, Len(MatchPackets)))

MatchPacketStarts ==
    [k \in 1..Len(MatchPackets) |->
        HEADER_SIZE + Len(PeriodFill) + Len(Flatten(MatchPackets, 0, k - 1))]

\* An 18-byte literal, a dummy, a pad packet with its filler up to 0x1010,
\* a little match and a 4-byte literal.
PadStream ==
    WadStream(SeedPrefix \o <<18, 0, 0>>
              \o Run(238, SKIP_WINDOW + HEADER_SIZE
                           - (HEADER_SIZE + Len(SeedPrefix) + 3))
              \o <<64, 0>> \o <<1, 9, 9, 9, 9>>)

DecStreams ==
    PacketStreams \cup HeaderStreams \cup {DeepStream, MatchStream}

\* The values an out-of-bounds read of the source can yield.
JunkBytes == {0, 238}

(***************************************************************************)
(* The state.                                                              *)
(***************************************************************************)
VARIABLES
    src,            \* src.buffer of compress_wad
    thread_count,
    cpc,            \* where compress_wad is: "idle" (not called),
                    \* "entry", "inline", "spawn", "join", "header",
                    \* "stitch", "done"; or how it ended otherwise: "failed"
                    \* (get_wad_packet_size threw), "length_error" (the
                    \* vector constructor threw), "trapped"
    spawned,        \* the i of the spawning loop
    joined,         \* the i of the joining loop
    w,              \* per worker: st ("unborn", "run", "exit"), its encoder
                    \* state e and its src_end
    intermediates,  \* intermediates[i].buffer
    dest,           \* dest of compress_wad: [buffer, pos]
    blk,            \* the i of the stitching loop
    stitched,       \* the packets stitched so far: for each, dest.pos
                    \* before and after its step, its size, whether a seam
                    \* dummy went in
    dpc,            \* where decompress_wad_n is: "idle", "header", "loop",
                    \* "done"
    dsrc,           \* src.buffer of decompress_wad_n
    dsrc_pos,       \* src.pos
    ddest,          \* dest.buffer
    dn,             \* bytes_to_decompress
    dstatus,        \* "ok" or the exception thrown
    decoded         \* the last packet decoded: its offset, its flag, whether
                    \* it was a pad, whether the packet before it (pads
                    \* apart) was a literal, dest.pos when it was reached

vars == <<src, thread_count, cpc, spawned, joined, w, intermediates, dest,
          blk, stitched, dpc, dsrc, dsrc_pos, ddest, dn, dstatus,
          decoded>>

cvars == <<src, thread_count, cpc, spawned, joined, w, intermediates, dest,
           blk, stitched>>

dvars == <<dpc, dsrc, dsrc_pos, ddest, dn, dstatus, decoded>>

(***************************************************************************)
(* compress_wad: partition, workers, join.                                 *)
(***************************************************************************)
\* The block size of the partition (thread_count > 1).
BlockSize(len, t) ==
    LET min_block_size == BLOCK_UNIT * t
        total_size == len + (min_block_size - (len % min_block_size))
    IN  total_size \div t

\* src_pos and src_end handed to compress_wad_intermediate for block i.
BlockStart(len, t, i) == IF t = 1 THEN 0 ELSE BlockSize(len, t) * i

BlockEnd(len, t, i) ==
    IF t = 1 THEN len ELSE Min(len, BlockSize(len, t) * (i + 1))

Worker(st, len, t, i) ==
    [st |-> st, e |-> EncoderInit(BlockStart(len, t, i)),
     src_end |-> BlockEnd(len, t, i)]

NoPacket ==
    [at |-> 0, flag |-> 256, pad |-> FALSE, after_literal |-> FALSE,
     dest_pos |-> 0]

DecoderIdle ==
    /\ dpc = "idle"
    /\ dsrc = << >>
    /\ dsrc_pos = 0
    /\ ddest = << >>
    /\ dn = 0
    /\ dstatus = "ok"
    /\ decoded = NoPacket

InitWith(inputs, threads) ==
    /\ src \in inputs
    /\ thread_count \in threads
    /\ cpc = IF thread_count = 1 THEN "inline"
             ELSE IF thread_count > 1 THEN "spawn" ELSE "entry"
    /\ spawned = 0
    /\ joined = 0
    /\ w = [i \in 0..(thread_count - 1) |->
                Worker(IF thread_count = 1 THEN "run" ELSE "unborn",
                       Len(src), thread_count, i)]
    /\ intermediates = [i \in 0..(thread_count - 1) |-> << >>]
    /\ dest = [buffer |-> << >>, pos |-> 0]
    /\ blk = 0
    /\ stitched = << >>
    /\ DecoderIdle

Init ==
    \/ InitWith(SmallInputs, Threads)
    \/ InitWith(MedInputs, MedThreads)
    \/ InitWith(NoThreadInputs, NoThreads)
    \/ InitWith(ScenarioInputs, {1})
    \/ InitWith(ExactInputs, {2})

\* compress_wad entered with thread_count < 1 (with thread_count >= 1 the
\* state after these lines is the initial state).  A negative thread_count
\* converts to a size beyond max_size() and the constructor of
\* "intermediates(thread_count)" throws.  With thread_count = 0 the vector
\* is empty, min_block_size is 0 and "total_size % min_block_size" divides
\* by zero: the division traps and the process dies, or it yields some
\* value and compress_wad goes on with loops that run zero times.
PartitionNoThreads ==
    /\ cpc = "entry"
    /\ IF thread_count < 0
       THEN cpc' = "length_error"
       ELSE cpc' \in {"trapped", "header"}
    /\ UNCHANGED <<src, thread_count, spawned, joined, w, intermediates, dest,
                   blk, stitched>>
    /\ UNCHANGED dvars

\* threads[i] = std::thread(compress_wad_intermediate, ...)
Spawn ==
    /\ cpc = "spawn"
    /\ w' = [w EXCEPT ![spawned].st = "run"]
    /\ spawned' = spawned + 1
    /\ cpc' = IF spawned + 1 = thread_count THEN "join" ELSE "spawn"
    /\ UNCHANGED <<src, thread_count, joined, intermediates, dest, blk, stitched>>
    /\ UNCHANGED dvars

\* The bytes an iteration started at src_pos may read lie below
\* src_pos + 273 + 256; past the end of the buffer they are junk.
OverRead(e, src_end) ==
    IF e.src_pos + MAX_MATCH_SIZE >= src_end
       \/ e.src_pos + MAX_LITERAL_SIZE + MAX_MATCH_SIZE <= Len(src)
    THEN {0}
    ELSE JunkBytes

\* One iteration of the loop of compress_wad_intermediate in worker i.
WorkerStep(i) ==
    /\ cpc \in {"inline", "spawn", "join"}
    /\ w[i].st = "run"
    /\ w[i].e.src_pos < w[i].src_end
    /\ \E g \in OverRead(w[i].e, w[i].src_end) :
           w' = [w EXCEPT ![i].e = EncodeIteration(w[i].e, src, g,
                                                    w[i].src_end)]
    /\ UNCHANGED <<src, thread_count, cpc, spawned, joined, intermediates,
                   dest, blk, stitched>>
    /\ UNCHANGED dvars

\* The loop is over: *intermediate = std::move(thread_dest.buffer), which
\* leaves thread_dest.buffer empty, and the worker returns.
WorkerExit(i) ==
    /\ cpc \in {"inline", "spawn", "join"}
    /\ w[i].st = "run"
    /\ w[i].e.src_pos >= w[i].src_end
    /\ intermediates' = [intermediates EXCEPT ![i] = w[i].e.buffer]
    /\ w' = [w EXCEPT ![i].st = "exit", ![i].e.buffer = << >>]
    /\ cpc' = IF cpc = "inline" THEN "header" ELSE cpc
    /\ UNCHANGED <<src, thread_count, spawned, joined, dest, blk, stitched>>
    /\ UNCHANGED dvars

\* (variant: compress_wad goes on after the first join)
JoinFirstOnly ==
    /\ cpc = "join"
    /\ w[joined].st = "exit"
    /\ joined' = joined + 1
    /\ cpc' = "header"
    /\ UNCHANGED <<src, thread_count, spawned, w, intermediates, dest, blk,
                   stitched>>
    /\ UNCHANGED dvars

\* threads[i].join()
Join ==
    /\ cpc = "join"
    /\ w[joined].st = "exit"
    /\ joined' = joined + 1
    /\ cpc' = IF joined + 1 = thread_count THEN "header" ELSE "join"
    /\ UNCHANGED <<src, thread_count, spawned, w, intermediates, dest, blk,
                   stitched>>
    /\ UNCHANGED dvars

(***************************************************************************)
(* compress_wad: header, stitching, total size.                            *)
(***************************************************************************)
\* dest.seek(0); dest.write_n(header, 0x10)
WriteHeader ==
    /\ cpc = "header"
    /\ dest' = [buffer |-> HEADER_BYTES
                           \o SubSeq(dest.buffer, HEADER_SIZE + 1,
                                     Len(dest.buffer)),
                pos |-> HEADER_SIZE]
    /\ cpc' = "stitch"
    /\ blk' = 0
    /\ UNCHANGED <<src, thread_count, spawned, joined, w, intermediates,
                   stitched>>
    /\ UNCHANGED dvars

\* One iteration of "for(int i = 0; i < thread_count; i++)": the packets of
\* block i are appended to dest.  An exception of get_wad_packet_size ends
\* compress_wad.
StitchBlock ==
    /\ cpc = "stitch"
    /\ blk < thread_count
    /\ LET r == StitchBlockFrom(dest, intermediates[blk], blk, 0, << >>)
       IN  /\ dest' = r.dest
           /\ stitched' = stitched \o r.log
           /\ cpc' = IF r.thrown THEN "failed" ELSE "stitch"
    /\ blk' = blk + 1
    /\ UNCHANGED <<src, thread_count, spawned, joined, w, intermediates>>
    /\ UNCHANGED dvars

\* uint32_t total_size = dest.pos; dest.seek(3); dest.write(total_size);
\* compress_wad returns and its intermediates are destroyed.
PatchHeader ==
    /\ cpc = "stitch"
    /\ blk = thread_count
    /\ dest' = PatchTotalSize(dest, dest.pos)
    /\ intermediates' = [i \in 0..(thread_count - 1) |-> << >>]
    /\ cpc' = "done"
    /\ UNCHANGED <<src, thread_count, spawned, joined, w, blk, stitched>>
    /\ UNCHANGED dvars

(***************************************************************************)
(* decompress_wad_n                                                        *)
(***************************************************************************)
\* decompress_wad_n(dest, src, n) is called on the stream s with an empty
\* dest (decompress_wad is the call with n = 0).
Decompress(s, n) ==
    /\ dpc = "idle"
    /\ dsrc' = s
    /\ dn' = n
    /\ dpc' = "header"
    /\ UNCHANGED <<dsrc_pos, ddest, dstatus, decoded>>
    /\ UNCHANGED cvars

\* The call on the output of compress_wad.
StartDecompress ==
    /\ cpc = "done"
    /\ \E n \in 0..MaxN : Decompress(dest.buffer, n)

\* auto header = src.read<wad_header>(0); if(!validate_wad(header.magic))
DecHeader ==
    /\ dpc = "header"
    /\ IF ~HeaderReadable(dsrc)
       THEN dpc' = "done" /\ dstatus' = "truncated" /\ dsrc_pos' = dsrc_pos
       ELSE IF ~validate_wad(dsrc)
       THEN dpc' = "done" /\ dstatus' = "bad_magic"
            /\ dsrc_pos' = HEADER_SIZE
       ELSE dpc' = "loop" /\ dstatus' = "ok" /\ dsrc_pos' = HEADER_SIZE
    /\ UNCHANGED <<dsrc, ddest, dn, decoded>>
    /\ UNCHANGED cvars

\* One iteration of the while loop.
DecPacket ==
    /\ dpc = "loop"
    /\ DecodeContinues(dsrc, dsrc_pos, ddest, dn)
    /\ LET r == DecodePacket(dsrc, dsrc_pos, ddest)
       IN  /\ dsrc_pos' = r.src_pos
           /\ ddest' = r.dest
           /\ dstatus' = r.status
           /\ dpc' = IF r.status = "ok" THEN "loop" ELSE "done"
           /\ decoded' = [at |-> dsrc_pos,
                          flag |-> IF CanRead(dsrc, dsrc_pos, 1)
                                   THEN dsrc[dsrc_pos + 1] ELSE 256,
                          pad |-> TakesPadBranch(dsrc, dsrc_pos),
                          after_literal |->
                              IF decoded.pad THEN decoded.after_literal
                              ELSE decoded.flag < 16,
                          dest_pos |-> Len(ddest)]
    /\ UNCHANGED <<dsrc, dn>>
    /\ UNCHANGED cvars

\* The loop condition fails: the call returns.
DecExit ==
    /\ dpc = "loop"
    /\ ~DecodeContinues(dsrc, dsrc_pos, ddest, dn)
    /\ dpc' = "done"
    /\ UNCHANGED <<dsrc, dsrc_pos, ddest, dn, dstatus, decoded>>
    /\ UNCHANGED cvars

Next ==
    \/ PartitionNoThreads
    \/ Spawn
    \/ \E i \in 0..(thread_count - 1) : WorkerStep(i)
    \/ \E i \in 0..(thread_count - 1) : WorkerExit(i)
    \/ Join
    \/ WriteHeader
    \/ StitchBlock
    \/ PatchHeader
    \/ StartDecompress
    \/ DecHeader
    \/ DecPacket
    \/ DecExit

Spec == Init /\ [][Next]_vars

\* The same program on the medium inputs and on the inputs that reach the
\* first 0x2000 boundary.
InitPad ==
    \/ InitWith(MedInputs, MedThreads)
    \/ InitWith(BigInputs, {1})
    \/ InitWith(NoThreadInputs, NoThreads)

SpecPad == InitPad /\ [][Next]_vars

\* The values the out-of-bounds reads of the worker of a block can yield: an
\* iteration started below src_end reads below src_end + 273 + 256, inside
\* the buffer when that is no more than its length.
JunkFor(len, src_end) ==
    IF src_end + MAX_LITERAL_SIZE + MAX_MATCH_SIZE <= len THEN {0}
    ELSE JunkBytes

\* The state of compress_wad when every worker has run to its end and none
\* is joined yet.
InitJoined(inputs, threads) ==
    /\ src \in inputs
    /\ thread_count \in threads
    /\ cpc = "join"
    /\ spawned = thread_count
    /\ joined = 0
    /\ \E end \in {[i \in 0..(thread_count - 1) |->
                      [g \in JunkFor(Len(src),
                                     BlockEnd(Len(src), thread_count, i)) |->
                          EncoderAtEnd(
                              EncoderInit(BlockStart(Len(src), thread_count,
                                                     i)),
                              src, g, BlockEnd(Len(src), thread_count, i))]]},
          gs \in [0..(thread_count - 1) -> JunkBytes] :
               /\ \A i \in 0..(thread_count - 1) : gs[i] \in DOMAIN end[i]
               /\ w = [i \in 0..(thread_count - 1) |->
                          [st |-> "exit",
                           e |-> [end[i][gs[i]] EXCEPT !.buffer = << >>],
                           src_end |-> BlockEnd(Len(src), thread_count, i)]]
               /\ intermediates = [i \in 0..(thread_count - 1) |->
                                      end[i][gs[i]].buffer]
    /\ dest = [buffer |-> << >>, pos |-> 0]
    /\ blk = 0
    /\ stitched = << >>
    /\ DecoderIdle

\* The same program on the medium inputs, and from the join on for an
\* input of two blocks whose seam meets the first 0x2000 boundary.
InitSeam ==
    \/ InitWith(MedInputs, MedThreads)
    \/ InitWith(NoThreadInputs, NoThreads)
    \/ InitJoined(SeamInputs, {2})

SpecSeam == InitSeam /\ [][Next]_vars

\* The decompressor alone, on the streams of DecStreams; compress_wad is
\* not called.
InitDec ==
    /\ src = << >>
    /\ thread_count = 1
    /\ cpc = "idle"
    /\ spawned = 0
    /\ joined = 0
    /\ w = [i \in 0..0 |-> Worker("unborn", 0, 1, i)]
    /\ intermediates = [i \in 0..0 |-> << >>]
    /\ dest = [buffer |-> << >>, pos |-> 0]
    /\ blk = 0
    /\ stitched = << >>
    /\ DecoderIdle

DecompressStream == \E s \in DecStreams, n \in 0..MaxN : Decompress(s, n)

NextDec ==
    \/ DecompressStream
    \/ DecHeader
    \/ DecPacket
    \/ DecExit

SpecDec == InitDec /\ [][NextDec]_vars

\* The decompressor alone, running, on the streams of HeaderStreams, on the
\* stream with a pad and on those of PacketStreams whose packet is a
\* literal, a packet of the 0x10-0x1f family or a match of 3 or 4 bytes:
\* decompress_wad_n is one sequential loop on the calling thread, which
\* executes its next statement whenever there is one.
ShortStreams ==
    {WadStream(SeedPrefix \o p \o t) :
        p \in {q \in TestPackets : q[1] < 32 \/ q[1] \in {33, 34}
                                              \/ q[1] \in 64..127},
        t \in Tails}
    \cup HeaderStreams \cup {PadStream}

DecompressShort ==
    \E s \in ShortStreams, n \in 0..MaxN : Decompress(s, n)

NextDecLive ==
    \/ DecompressShort
    \/ DecHeader
    \/ DecPacket
    \/ DecExit

SpecDecLive ==
    /\ InitDec
    /\ [][NextDecLive]_vars
    /\ WF_vars(DecHeader)
    /\ WF_vars(DecPacket)
    /\ WF_vars(DecExit)

(***************************************************************************)
(* Properties.                                                             *)
(***************************************************************************)
\* The 0x2000 window an offset of the output lies in, and its offset there.
WindowOf(p) == (p - HEADER_SIZE) \div PAD_WINDOW

OffsetInWindow(p) == (p - HEADER_SIZE) % PAD_WINDOW

\* The little-endian 32-bit value at the C++ indices off..off+3 of s.
LittleEndian32(s, off) ==
    s[off + 1] + 256 * s[off + 2] + 65536 * s[off + 3] + 16777216 * s[off + 4]

\* The stitching step p wrote a pad packet where dest.pos was.
PadWritten(p) ==
    /\ Len(dest.buffer) >= p.at + 3
    /\ SubSeq(dest.buffer, p.at + 1, p.at + 3) = <<18, 0, 0>>

\* The bytes the stitching step p had to insert: the packet, and the seam
\* dummy in front of it.
InsertSize(p) == p.size + (IF p.dummy THEN 3 ELSE 0)

\* C1: round trip.  decompress_wad applied to the output of
\* compress_wad(s, t), both destinations initially empty, yields exactly s:
\* the same length and the same bytes.
RoundTrip ==
    (dpc = "done" /\ dn = 0) => (dstatus = "ok" /\ ddest = src)

\* C2: no adjacent literals.  compress_wad does not fail on a double
\* literal, and the walk of its output from offset 0x10 (the decoder's walk,
\* pad packets and their filler skipped) never finds a literal packet
\* immediately followed by another literal packet.
NoAdjacentLiterals ==
    /\ cpc # "failed"
    /\ dstatus # "double_literal"
    /\ ~(decoded.flag < 16 /\ decoded.after_literal)

\* A dummy packet has been decoded that separates two literal packets.
DummyBetweenLiterals ==
    /\ dpc = "loop"
    /\ decoded.flag = 17
    /\ decoded.after_literal
    /\ dsrc_pos < Len(dsrc)
    /\ dsrc[dsrc_pos + 1] < 16

\* C3: 8 KiB invariant.  No packet of the output of compress_wad straddles
\* an offset 0x10 + k*0x2000 (a seam dummy counts together with the packet
\* it precedes); a pad packet is 0x12 0x00 0x00, the bytes after it are 0xEE
\* up to such an offset, where the next packet starts.
EightKInvariant ==
    /\ (dpc \in {"loop", "done"} /\ decoded # NoPacket /\ dstatus = "ok") =>
           IF decoded.pad
           THEN /\ SubSeq(dsrc, decoded.at + 1, decoded.at + 3) = <<18, 0, 0>>
                /\ OffsetInWindow(dsrc_pos) = 0
                /\ dsrc_pos < Len(dsrc)
                /\ \A k \in (decoded.at + 3)..(dsrc_pos - 1) :
                       dsrc[k + 1] = 238
           ELSE WindowOf(decoded.at) = WindowOf(dsrc_pos - 1)
    /\ \A k \in 1..Len(stitched) :
           LET start == stitched[k].end - InsertSize(stitched[k])
           IN  /\ WindowOf(start) = WindowOf(stitched[k].end - 1)
               /\ stitched[k].at # start => OffsetInWindow(start) = 0

\* The decoder has skipped a pad packet and its filler.
PadDecoded ==
    /\ dpc = "loop"
    /\ dstatus = "ok"
    /\ decoded.pad
    /\ dsrc_pos > decoded.at + 3

\* C4: header consistency.  After compress_wad returns, the little-endian
\* 32-bit value at bytes 3..6 of dest equals the number of bytes in dest.
HeaderConsistent ==
    cpc = "done" => LittleEndian32(dest.buffer, 3) = Len(dest.buffer)

\* compress_wad has returned more than 256 bytes made by several threads.
LongOutputDone ==
    /\ cpc = "done"
    /\ thread_count > 1
    /\ Len(dest.buffer) > 256

\* The output compress_wad computes when every out-of-bounds read of the
\* source yields g: the blocks encoded one after the other, then stitched.
RECURSIVE StitchBlocks(_, _, _, _)
StitchBlocks(d, inter, t, i) ==
    IF i >= t THEN PatchTotalSize(d, d.pos).buffer
    ELSE StitchBlocks(StitchBlockFrom(d, inter[i], i, 0, << >>).dest,
                      inter, t, i + 1)

CompressWith(s, t, g) ==
    StitchBlocks([buffer |-> HEADER_BYTES, pos |-> HEADER_SIZE],
                 [i \in 0..(t - 1) |->
                     EncodeBlock(EncoderInit(BlockStart(Len(s), t, i)), s, g,
                                 BlockEnd(Len(s), t, i))],
                 t, 0)

\* C5: determinism.  For a fixed input s and thread_count t compress_wad
\* produces the same byte sequence under every interleaving and completion
\* order of the workers: the output is the one function of (s, t) that the
\* sequential run computes.
Deterministic ==
    cpc = "done" => dest.buffer = CompressWith(src, thread_count, 0)

\* The last packet decoded, without error.
PacketDecoded ==
    /\ dpc \in {"loop", "done"}
    /\ decoded # NoPacket
    /\ dstatus = "ok"

\* The number of source bytes the decoder consumed for the last packet.
Consumed == dsrc_pos - decoded.at

\* What get_wad_packet_size returns for the last packet decoded.
PacketSize ==
    get_wad_packet_size(dsrc, decoded.at, Len(dsrc) - decoded.at)

\* C6 as stated: packet length agreement.  For every packet starting at a
\* packet boundary, whatever its flag byte and payload, get_wad_packet_size
\* returns exactly the number of source bytes decompress_wad_n consumes
\* while decoding that one packet, tiny literal included.
PacketLengthAgreement ==
    PacketDecoded => Consumed = PacketSize

\* C6 amended: for every packet that decompress_wad_n decodes without error
\* and that does not take its padding branch (flag 0x10..0x17 with a count
\* other than 1 and a zero position), get_wad_packet_size returns exactly
\* the number of source bytes the decoder consumes, tiny literal included;
\* and it throws its double-literal error exactly where the decoder throws
\* its own.
PacketLengthAgreementExceptPad ==
    /\ (PacketDecoded /\ ~decoded.pad) => Consumed = PacketSize
    /\ (dpc = "done" /\ decoded # NoPacket /\ dstatus = "double_literal") =>
           PacketSize = DoubleLiteralThrown
    /\ (PacketDecoded /\ decoded.flag < 16) =>
           PacketSize # DoubleLiteralThrown

\* A match of the 0x10-0x1f family that looks back more than 0x4000 bytes
\* and carries a tiny literal of 3 bytes has been decoded.
FarMatchDecoded ==
    /\ PacketDecoded
    /\ ~decoded.pad
    /\ decoded.flag >= 16 /\ decoded.flag < 32
    /\ Len(ddest) > 16384
    /\ Consumed = 3 + 1 + 3

\* C7: decompress_wad_n(dest, src, n) with n > 0, on a valid stream that
\* encodes at least n bytes, leaves dest holding exactly n bytes, never
\* more; with n = 0 it decodes everything up to total_size.
ExactlyN ==
    (dpc = "done" /\ dstatus = "ok") =>
        /\ (dn > 0 /\ Len(src) >= dn) => Len(ddest) = dn
        /\ dn = 0 => dsrc_pos >= HeaderTotalSize(dsrc)

\* C9: double-literal detection.  When the decoder has copied the payload
\* of a literal packet and the next source byte exists and is < 0x10,
\* decompress_wad_n fails with the double-literal error; when the payload
\* ends exactly at the end of the source (or the next byte is 0x10 or more)
\* no error is raised.
DoubleLiteralDetection ==
    (/\ dpc \in {"loop", "done"}
     /\ decoded # NoPacket
     /\ decoded.flag < 16
     /\ dstatus # "truncated") =>
        IF dsrc_pos < Len(dsrc) /\ dsrc[dsrc_pos + 1] < 16
        THEN dpc = "done" /\ dstatus = "double_literal"
        ELSE dstatus = "ok"

\* The decoder has failed on a literal that follows a literal whose payload
\* it had copied to dest.
DoubleLiteralRaised ==
    /\ dpc = "done"
    /\ dstatus = "double_literal"
    /\ decoded.flag < 16
    /\ dsrc_pos < Len(dsrc)
    /\ Len(ddest) > 18

\* C10: if the first three bytes of src are not 0x57 0x41 0x44,
\* decompress_wad_n fails before it reads a packet and before it writes a
\* byte to dest; if they are, no other byte of the header (bytes 7..15) can
\* make it fail on the header.
BadMagicFailsFirst ==
    dpc \in {"loop", "done"} =>
        IF Len(dsrc) >= 3 /\ SubSeq(dsrc, 1, 3) = <<87, 65, 68>>
        THEN dstatus = "bad_magic" => FALSE
        ELSE /\ dpc = "done"
             /\ dstatus \in {"bad_magic", "truncated"}
             /\ Len(dsrc) >= HEADER_SIZE => dstatus = "bad_magic"
             /\ decoded = NoPacket
             /\ dsrc_pos <= HEADER_SIZE
             /\ ddest = << >>

\* The decoder has rejected a stream that differs from a valid one in the
\* third byte of the magic alone.
BadMagicRejected ==
    /\ dpc = "done"
    /\ dstatus = "bad_magic"
    /\ Len(dsrc) > HEADER_SIZE
    /\ SubSeq(dsrc, 1, 2) = <<87, 65>>
    /\ ddest = << >>

\* C8 as stated: compress_wad emits a pad packet before a packet if and only
\* if appending that packet at the current position would cross the next
\* boundary 0x10 + k*0x2000; it never pads when the packet fits before it.
PadIffCrossing ==
    \A k \in 1..Len(stitched) :
        PadWritten(stitched[k]) <=>
            OffsetInWindow(stitched[k].at) + InsertSize(stitched[k])
                > PAD_WINDOW

\* C8 amended: compress_wad emits a pad packet before a packet if and only
\* if appending that packet at the current position would leave fewer than
\* 3 bytes (the room of a pad packet) before the next boundary
\* 0x10 + k*0x2000, which includes every packet that would cross it.
PadIffNoRoom ==
    \A k \in 1..Len(stitched) :
        PadWritten(stitched[k]) <=>
            OffsetInWindow(stitched[k].at) + InsertSize(stitched[k])
                > PAD_WINDOW - 3

\* A pad was written before a packet that would have fitted.
PadBeforeFittingPacket ==
    \E k \in 1..Len(stitched) :
        /\ PadWritten(stitched[k])
        /\ OffsetInWindow(stitched[k].at) + InsertSize(stitched[k])
               <= PAD_WINDOW

\* C11: no partial result on error.  Whenever decompress_wad_n fails (bad
\* magic, double literal, read past the end of the source, lookback outside
\* dest), dest is as it was before the call (empty): none of the bytes
\* decoded before the failure remain in it.
NoPartialResult ==
    (dpc = "done" /\ dstatus # "ok") => ddest = << >>

\* C12: compress_wad called with thread_count < 1 fails with an error
\* surfaced to the caller (an exception leaves the call), without spawning
\* a worker and without writing to dest.
InvalidThreadCountRejected ==
    (thread_count < 1 /\ cpc # "entry") =>
        /\ cpc = "length_error"
        /\ spawned = 0
        /\ dest.buffer = << >>

\* The offset where the packet of the stitching step p starts in dest.
PacketStart(p) == p.end - p.size

\* The stitching step p wrote a dummy packet right before its packet.
DummyBefore(p) ==
    /\ PacketStart(p) - 3 >= p.at
    /\ SubSeq(dest.buffer, PacketStart(p) - 2, PacketStart(p)) = <<17, 0, 0>>

\* C13: block seam.  The first packet of every non-empty block after block
\* 0 is immediately preceded in the output by a dummy packet 0x11 0x00 0x00
\* that lies in the same 0x2000 window; when the step pads, the pad packet
\* and its filler come before the dummy, which then starts the window.  No
\* other stitching step (block 0, later packets of a block) emits a dummy,
\* and an empty block emits nothing: the output is the header and what the
\* steps of the non-empty blocks appended.
SeamDummy ==
    /\ \A k \in 1..Len(stitched) :
           LET p == stitched[k]
           IN  IF p.block > 0 /\ p.ipos = 0
               THEN /\ DummyBefore(p)
                    /\ WindowOf(PacketStart(p) - 3) = WindowOf(p.end - 1)
                    /\ \/ PacketStart(p) - 3 = p.at
                       \/ /\ PadWritten(p)
                          /\ OffsetInWindow(PacketStart(p) - 3) = 0
               ELSE /\ ~DummyBefore(p)
                    /\ \/ PacketStart(p) = p.at
                       \/ /\ PadWritten(p)
                          /\ OffsetInWindow(PacketStart(p)) = 0
    /\ \A k \in 1..Len(stitched) :
           stitched[k].at = IF k = 1 THEN HEADER_SIZE ELSE stitched[k - 1].end
    /\ (cpc \in {"stitch", "done"} /\ thread_count > 1) =>
           Len(dest.buffer) = IF stitched = << >> THEN HEADER_SIZE
                              ELSE stitched[Len(stitched)].end

\* The first packet of block 1 went in behind a pad packet, its filler and
\* the seam dummy.
SeamDummyAfterPad ==
    \E k \in 1..Len(stitched) :
        /\ stitched[k].block = 1
        /\ stitched[k].ipos = 0
        /\ PadWritten(stitched[k])
        /\ DummyBefore(stitched[k])

\* The packets of the output: what follows its header.
Packets == SubSeq(dest.buffer, HEADER_SIZE + 1, Len(dest.buffer))

\* C14 as stated: header framing.  Every compress_wad output begins with
\* the magic 0x57 0x41 0x44, and its bytes 7..15 are the ASCII tag WRENCH01
\* followed by a zero byte.
HeaderFraming ==
    cpc = "done" =>
        /\ SubSeq(dest.buffer, 1, 3) = <<87, 65, 68>>
        /\ SubSeq(dest.buffer, 8, 15) = <<87, 82, 69, 78, 67, 72, 48, 49>>
        /\ dest.buffer[16] = 0

\* C14 amended: every compress_wad output begins with the magic 0x57 0x41
\* 0x44, and its bytes 7..15 are the nine ASCII characters WRENCH010: the
\* tag WRENCH01 followed by the character '0' (0x30), not by a zero byte.
HeaderFramingAscii ==
    cpc = "done" =>
        /\ SubSeq(dest.buffer, 1, 3) = <<87, 65, 68>>
        /\ SubSeq(dest.buffer, 8, 15) = <<87, 82, 69, 78, 67, 72, 48, 49>>
        /\ dest.buffer[16] = 48

\* compress_wad has returned an output with packets behind its header.
FramedOutputDone ==
    /\ cpc = "done"
    /\ thread_count >= 1
    /\ Len(dest.buffer) > HEADER_SIZE
    /\ dest.buffer[16] = 48

\* C15: empty input.  compress_wad of the empty sequence with any
\* thread_count >= 1 yields exactly the 16-byte header with total_size = 16,
\* with no packet, seam dummy or pad; decompress_wad of that output yields
\* the empty sequence.
EmptyInput ==
    (src = << >> /\ thread_count >= 1) =>
        /\ cpc \notin {"failed", "length_error", "trapped"}
        /\ stitched = << >>
        /\ \A i \in 0..(thread_count - 1) : intermediates[i] = << >>
        /\ cpc = "done" =>
               /\ Len(dest.buffer) = 16
               /\ SubSeq(dest.buffer, 1, 3) = <<87, 65, 68>>
               /\ LittleEndian32(dest.buffer, 3) = 16
        /\ dpc = "done" => (dstatus = "ok" /\ ddest = << >>)

\* The header-only output of eight threads has been decompressed.
EmptyDecoded ==
    /\ src = << >>
    /\ thread_count = 8
    /\ cpc = "done"
    /\ dpc = "done"
    /\ dn = 0
    /\ ddest = << >>

\* C16: single short literal.  For a one-byte input [b] and thread_count 1
\* compress_wad yields exactly 20 bytes: the 16-byte header, one dummy
\* packet (flag 0x11, zero position) carrying a tiny literal of length 1,
\* then the raw byte b; total_size = 20.
SingleShortLiteral ==
    (Len(src) = 1 /\ thread_count = 1 /\ cpc = "done") =>
        /\ Len(dest.buffer) = 20
        /\ LittleEndian32(dest.buffer, 3) = 20
        /\ Packets = <<17, 1, 0, src[1]>>

\* The output for the one byte 0xAA is complete.
SingleByteDone ==
    /\ src = <<170>>
    /\ thread_count = 1
    /\ cpc = "done"
    /\ dest.buffer[20] = 170

\* The input of ten equal bytes, compressed by one thread.
TenEqualBytes == Len(src) = 10 /\ src = Run(src[1], 10) /\ thread_count = 1

\* C17 as stated: repeating byte.  compress_wad of ten equal bytes with
\* thread_count 1 emits, after the header, exactly one literal of three
\* bytes (a tiny literal, carried by a dummy) followed by exactly one
\* little-match packet of length 7 with lookback 1, and nothing else.
RepeatingByte ==
    (TenEqualBytes /\ cpc = "done") =>
        /\ Len(stitched) = 2
        /\ SubSeq(Packets, 1, 6) = <<17, 3, 0>> \o Run(src[1], 3)
        /\ Len(Packets) = 8
        /\ Packets[7] >= 64
        /\ (Packets[7] \div 32) + 1 = 7
        /\ Packets[8] * 8 + ((Packets[7] \div 4) % 8) + 1 = 1

\* C17 amended: compress_wad of ten equal bytes with thread_count 1 emits,
\* after the header, one dummy packet carrying a tiny literal of one byte,
\* followed by one big-match packet (flag 0x27) of length 9 with lookback
\* 1, and nothing else: 0x11 0x01 0x00 b 0x27 0x00 0x00, total_size = 23.
RepeatingByteBigMatch ==
    (TenEqualBytes /\ cpc = "done") =>
        /\ Len(stitched) = 2
        /\ SubSeq(Packets, 1, 4) = <<17, 1, 0, src[1]>>
        /\ Len(Packets) = 7
        /\ Packets[5] >= 32 /\ Packets[5] < 64
        /\ (Packets[5] % 32) + 2 = 9
        /\ (Packets[6] \div 4) + Packets[7] * 64 + 1 = 1
        /\ Packets[6] % 4 = 0
        /\ LittleEndian32(dest.buffer, 3) = 23

\* The output for ten equal bytes has been decompressed to the input.
TenEqualBytesDecoded ==
    /\ TenEqualBytes
    /\ cpc = "done"
    /\ dpc = "done"
    /\ dn = 0
    /\ ddest = src

\* C18: each worker encodes exactly its own slice.  compress_wad_intermediate
\* called with (src_pos, src_end), src_pos < src_end, never moves src_pos
\* beyond src_end and stops with src_pos = src_end, so that no source byte
\* is encoded by two blocks or by a block it does not belong to.
OwnSlice ==
    \A i \in 0..(thread_count - 1) :
        BlockStart(Len(src), thread_count, i) < w[i].src_end =>
            /\ w[i].e.src_pos <= w[i].src_end
            /\ w[i].st = "exit" => w[i].e.src_pos = w[i].src_end

\* The largest element of a non-empty set of integers.
SetMax(S) == CHOOSE m \in S : \A x \in S : x <= m

\* The highest index of src that the j loop of find_match reads for
\* target = src_pos + i (-1 when the window low..target-1 is empty).  Without
\* end_of_buffer every j reads the 16-bit words at j and at target, and a j
\* whose words are equal reads target + k for k = 2.. up to the first
\* difference or max_match_size - 1; with end_of_buffer every j reads
\* target + k for k = 0.. up to the first difference or max_match_size - 1.
WindowReadTop(eob, s, g, target, max) ==
    LET low == sub_clamped(target, MAX_BIGGER_MATCH_LOOKBACK)
        longest == SetMax({MatchLenAt(eob, s, g, target, j, max) :
                              j \in low..(target - 1)})
        last_k == Min(longest, max - 1)
    IN  IF low >= target THEN 0 - 1
        ELSE IF eob THEN target + last_k
        ELSE target + (IF last_k < 1 THEN 1 ELSE last_k)

\* The highest index of src that find_match reads: its i loop runs from 0
\* to the i where it breaks, or to max_literal_size - 1.
HighestRead(eob, s, g, src_pos, src_end) ==
    LET m == find_match(eob, s, g, src_pos, src_end)
        last_i == IF m.match_size >= 3 THEN m.literal_size
                  ELSE MaxLiteralSize(eob, src_pos, src_end) - 1
    IN  SetMax({WindowReadTop(eob, s, g, src_pos + i,
                              MaxMatchSize(eob, src_pos, src_end, i)) :
                   i \in 0..last_i})

\* Worker i is about to call find_match.
AtFindMatch(i) ==
    /\ cpc \in {"inline", "spawn", "join"}
    /\ w[i].st = "run"
    /\ w[i].e.src_pos < w[i].src_end

\* The mode compress_wad_intermediate calls it in.
EndOfBuffer(i) == w[i].e.src_pos + MAX_MATCH_SIZE >= w[i].src_end

\* C19: find_match never reads a source byte at an index >= src_end, in
\* either mode, for any src_pos < src_end: neither the 16-bit prefix
\* comparison nor the byte-compare loop crosses src_end.
ReadsBelowSrcEnd ==
    \A i \in 0..(thread_count - 1) :
        AtFindMatch(i) =>
            \A g \in OverRead(w[i].e, w[i].src_end) :
                HighestRead(EndOfBuffer(i), src, g, w[i].e.src_pos,
                            w[i].src_end) < w[i].src_end

\* C20: when find_match finds no match of length >= 3 within the literal
\* budget it returns match_size = 0 and literal_size =
\* min(273, src_end - src_pos), in the mode compress_wad_intermediate
\* selects.
NoMatchLiteralSize ==
    \A i \in 0..(thread_count - 1) :
        AtFindMatch(i) =>
            \A g \in OverRead(w[i].e, w[i].src_end) :
                LET m == find_match(EndOfBuffer(i), src, g, w[i].e.src_pos,
                                    w[i].src_end)
                IN  m.match_size < 3 =>
                        /\ m.match_size = 0
                        /\ m.literal_size =
                               Min(MAX_LITERAL_SIZE,
                                   w[i].src_end - w[i].e.src_pos)

(***************************************************************************)
(* The partition into blocks.                                              *)
(***************************************************************************)
\* C21: block partitioning.  For thread_count > 1 the block size is
\* B = ceil(|src| / (256 * thread_count)) * 256, also when |src| is an exact
\* multiple of 256 * thread_count; block i covers
\* [B * i, min(|src|, B * (i + 1))), and the last block is truncated at
\* |src|.
BlockPartition ==
    thread_count > 1 =>
        LET unit == BLOCK_UNIT * thread_count
            B == ((Len(src) + unit - 1) \div unit) * BLOCK_UNIT
        IN  \A i \in 0..(thread_count - 1) :
                /\ w[i].src_end = Min(Len(src), B * (i + 1))
                /\ w[i].st = "unborn" => w[i].e.src_pos = B * i

(***************************************************************************)
(* Match packets.                                                          *)
(***************************************************************************)
\* What the decoder reads from the fields of the packet at pos (flag byte
\* 0x10 or more): bytes_to_copy, dest.pos - lookback_offset, src.pos - pos
\* after the fields and src.peek8(src.pos - 2) & 3.
MatchFields(s, pos) ==
    LET flag_byte == s[pos + 1]
        typeC == flag_byte < 32
        typeB == flag_byte >= 32 /\ flag_byte < 64
        has_size_byte ==
            \/ typeC /\ BitAnd(flag_byte, 7, 8) = 0
            \/ typeB /\ BitAnd(flag_byte, 31, 8) = 0
        fields == 1 + (IF has_size_byte THEN 1 ELSE 0)
                    + (IF typeC \/ typeB THEN 2 ELSE 1)
        p0 == s[pos + fields - 1]
        p1 == s[pos + fields]
        position == (p0 \div 4) + p1 * 64
        far == IF BitAnd(flag_byte, 8, 8) # 0 THEN 16384 ELSE 0
    IN  [bytes_to_copy |->
             IF typeC
             THEN (IF has_size_byte THEN s[pos + 2] + 7
                   ELSE BitAnd(flag_byte, 7, 8))
                  + (IF far + position = 0 THEN 0 ELSE 2)
             ELSE IF typeB
             THEN (IF has_size_byte THEN s[pos + 2] + 31
                   ELSE BitAnd(flag_byte, 31, 8)) + 2
             ELSE (flag_byte \div 32) + 1,
         lookback |->
             IF typeC
             THEN (IF far + position = 0 THEN 0
                   ELSE far + position + 16384)
             ELSE IF typeB THEN position + 1
             ELSE p1 * 8 + BitAnd(flag_byte \div 4, 7, 8) + 1,
         fields |-> fields,
         snd_pos |-> BitAnd(p0, 3, 8)]

\* C22: match packet encode/decode inverse.  For every length in [3, 256]
\* and lookback in [1, 16384], the bytes written by encode_match_packet are
\* decoded by decompress_wad_n as a copy of exactly that length from
\* exactly that distance behind dest.pos, with tiny-literal count 0; the
\* little form is used iff length <= 8 and lookback <= 2048, the big form
\* iff otherwise and length <= 33, else the flag 0x20 with length byte
\* length - 33.
MatchPacketInverse ==
    \A k \in 1..Len(MatchPackets) :
        LET match_size == MatchSizes[((k - 1) % Len(MatchSizes)) + 1]
            lookback == MatchLookbacks[((k - 1) \div Len(MatchSizes)) + 1]
            packet == MatchPackets[k]
        IN  (/\ dpc \in {"loop", "done"}
             /\ decoded # NoPacket
             /\ decoded.at = MatchPacketStarts[k]
             /\ dsrc = MatchStream) =>
                /\ dstatus = "ok"
                /\ Consumed = Len(packet)
                /\ MatchFields(dsrc, decoded.at).bytes_to_copy = match_size
                /\ MatchFields(dsrc, decoded.at).lookback = lookback
                /\ MatchFields(dsrc, decoded.at).snd_pos = 0
                /\ Len(ddest) = decoded.dest_pos + match_size
                /\ \A i \in 1..match_size :
                       ddest[decoded.dest_pos + i] =
                           ddest[decoded.dest_pos + i - lookback]
                /\ IF match_size <= 8 /\ lookback <= 2048
                   THEN Len(packet) = 2 /\ packet[1] >= 64
                   ELSE IF match_size <= 33
                   THEN /\ Len(packet) = 3
                        /\ packet[1] = 32 + (match_size - 2)
                   ELSE /\ Len(packet) = 4
                        /\ packet[1] = 32
                        /\ packet[2] = match_size - 33

\* The bigger match of 256 bytes that looks back 16384 bytes has been
\* decoded.
BiggestMatchDecoded ==
    /\ PacketDecoded
    /\ dsrc = MatchStream
    /\ decoded.at = MatchPacketStarts[10]
    /\ SubSeq(dsrc, decoded.at + 1, dsrc_pos) = <<32, 223, 252, 255>>
    /\ Len(ddest) = decoded.dest_pos + 256

RECURSIVE LastPacketFrom(_, _)
LastPacketFrom(buf, off) ==
    LET size == get_wad_packet_size(buf, off, Len(buf) - off)
    IN  IF size <= 0 \/ off + size >= Len(buf) THEN off
        ELSE LastPacketFrom(buf, off + size)

\* Worker i has run one iteration of its loop, from old to new, whose
\* find_match returned a literal of 1..3 bytes (and the out-of-bounds
\* reads g): the literal went into the packet before it, or into a dummy.
TinyInjected(old, new, s, g, src_pos, literal_size) ==
    LET last == LastPacketFrom(old, 0)
        needs_dummy ==
            \/ old = << >>
            \/ old[last + 1] < 16
            \/ MatchFields(old, last).snd_pos # 0
        base == IF needs_dummy THEN old \o <<17, 0, 0>> ELSE old
    IN  \* the carrier is the last packet and ends where the buffer ends
        /\ ~needs_dummy => last + MatchFields(old, last).fields = Len(old)
        \* its tiny field is zero at that moment
        /\ base[Len(base) - 1] % 4 = 0
        \* the length goes into its second-to-last byte, the bytes follow
        \* it with no literal header
        /\ Len(new) >= Len(base) + literal_size
        /\ SubSeq(new, 1, Len(base) + literal_size) =
               SetAt(base, Len(base) - 2, base[Len(base) - 1] + literal_size)
               \o SrcRange(s, g, src_pos, literal_size)
        \* and a match packet or nothing
        /\ Len(new) > Len(base) + literal_size =>
               new[Len(base) + literal_size + 1] >= 32

\* C24: tiny-literal injection.  A literal of 1..3 bytes is never emitted
\* as a literal packet; its length is OR-ed into the second-to-last byte of
\* the immediately preceding non-literal packet, whose 2-bit tiny field is
\* zero at that moment.  When the preceding packet is a literal, already
\* carries a tiny literal, or does not exist (block start), a dummy
\* 0x11 0x00 0x00 is appended first and carries it.  No packet's tiny field
\* is ever written twice.
TinyLiteralInjection ==
    [][\A i \in 0..(thread_count - 1) :
          (w[i].st = "run" /\ w'[i].st = "run" /\ w'[i].e # w[i].e) =>
              \E g \in OverRead(w[i].e, w[i].src_end) :
                  /\ w'[i].e = EncodeIteration(w[i].e, src, g, w[i].src_end)
                  /\ LET m == find_match(EndOfBuffer(i), src, g,
                                         w[i].e.src_pos, w[i].src_end)
                     IN  (m.literal_size >= 1 /\ m.literal_size <= 3) =>
                             TinyInjected(w[i].e.buffer, w'[i].e.buffer,
                                          src, g, w[i].e.src_pos,
                                          m.literal_size)]_vars

\* A worker has emitted a literal of 273 bytes and then a tiny literal of
\* one byte, carried by a dummy.
TinyInDummy ==
    \E i \in 0..(thread_count - 1) :
        /\ w[i].st = "run"
        /\ Len(w[i].e.buffer) = 2 + MAX_LITERAL_SIZE + 3 + 1
        /\ SubSeq(w[i].e.buffer, 1, 2) = <<0, 255>>
        /\ SubSeq(w[i].e.buffer, 276, 278) = <<17, 1, 0>>

(***************************************************************************)
(* Dummy and pad packets in the decoder.                                   *)
(***************************************************************************)
\* C25: the decoder treats the dummy packet 0x11 0x00 0x00 (with tiny count
\* T in the low 2 bits of its second byte) as a no-op: it writes nothing to
\* dest except the T tiny-literal bytes, consumes exactly 3 + T source
\* bytes, and does not perform the pad realignment skip; the skip happens
\* only for a 0x10..0x1F packet whose position field is zero with bit 3
\* clear and whose length field is not 1.
DummyIsNoOp ==
    (PacketDecoded /\ decoded.flag >= 16 /\ decoded.flag < 256) =>
        LET f == MatchFields(dsrc, decoded.at)
            end == decoded.at + f.fields
            pad_form ==
                /\ decoded.flag < 32
                /\ BitAnd(decoded.flag, 8, 8) = 0
                /\ dsrc[end - 1] \div 4 = 0 /\ dsrc[end] = 0
                /\ f.bytes_to_copy # 1
        IN  /\ (/\ decoded.flag = 17
                /\ dsrc[decoded.at + 2] < 4
                /\ dsrc[decoded.at + 3] = 0) =>
                   /\ ~pad_form
                   /\ Consumed = 3 + dsrc[decoded.at + 2]
                   /\ ddest = SubSeq(ddest, 1, decoded.dest_pos)
                               \o SubSeq(dsrc, decoded.at + 4, dsrc_pos)
            /\ pad_form =>
                   /\ Len(ddest) = decoded.dest_pos
                   /\ dsrc_pos >= end /\ dsrc_pos - end < SKIP_WINDOW
                   /\ dsrc_pos % SKIP_WINDOW = HEADER_SIZE
            /\ ~pad_form => dsrc_pos = end + f.snd_pos

\* A dummy that carries a tiny literal of 3 bytes has been decoded.
DummyWithTinyDecoded ==
    /\ PacketDecoded
    /\ decoded.flag = 17
    /\ SubSeq(dsrc, decoded.at + 1, decoded.at + 3) = <<17, 3, 0>>
    /\ Consumed = 6
    /\ Len(ddest) = decoded.dest_pos + 3

\* C26: pad realignment agreement.  For every pad packet emitted by
\* compress_wad, the decoder's skip (advance src.pos until
\* src.pos mod 0x1000 == 0x10) stops exactly at the offset where the
\* encoder's 0xEE filler ends (dest.pos mod 0x2000 == 0x10), i.e. at the
\* first byte of the next packet, and never inside the filler at an
\* intermediate 0x1000 boundary.
PadSkipAgreement ==
    /\ (cpc = "done" /\ PacketDecoded /\ decoded.pad) =>
           \E k \in 1..Len(stitched) :
               /\ stitched[k].at = decoded.at
               /\ PadWritten(stitched[k])
               /\ dsrc_pos = stitched[k].end - InsertSize(stitched[k])
               /\ dsrc_pos % PAD_WINDOW = HEADER_SIZE
               /\ \A q \in (decoded.at + 3)..(dsrc_pos - 1) :
                      /\ dsrc[q + 1] = 238
                      /\ q % SKIP_WINDOW # HEADER_SIZE
    /\ (cpc = "done" /\ PacketDecoded) =>
           \A k \in 1..Len(stitched) :
               (stitched[k].at = decoded.at
                /\ stitched[k].at # stitched[k].end - InsertSize(stitched[k]))
                   => decoded.pad

\* The decoder has skipped a pad packet of compress_wad and its filler up
\* to 0x2010, where a packet follows.
PadSkipLanded ==
    /\ cpc = "done"
    /\ PacketDecoded
    /\ decoded.pad
    /\ dsrc_pos = PAD_WINDOW + HEADER_SIZE
    /\ dsrc_pos > decoded.at + 3
    /\ dsrc_pos < Len(dsrc)
    /\ dsrc[dsrc_pos + 1] # 238

\* C27: overlapping copy.  A match of length L at distance d is copied one
\* byte at a time, the i-th produced byte being read from dest after the
\* previous i bytes were written; so when d < L the output repeats the last
\* d bytes periodically: dest[start + i] == dest[start - d + (i mod d)] for
\* all 0 <= i < L.
OverlappingCopy ==
    (/\ PacketDecoded
     /\ decoded.flag >= 16 /\ decoded.flag < 256
     /\ ~decoded.pad
     /\ MatchFields(dsrc, decoded.at).bytes_to_copy # 1) =>
        LET L == MatchFields(dsrc, decoded.at).bytes_to_copy
            d == MatchFields(dsrc, decoded.at).lookback
            start == decoded.dest_pos
        IN  /\ Len(ddest) >= start + L
            /\ \A i \in 0..(L - 1) :
                   ddest[start + i + 1] = ddest[start - d + (i % d) + 1]

\* A match of 8 bytes at distance 3 has been decoded behind three different
\* bytes.
OverlapDecoded ==
    /\ PacketDecoded
    /\ decoded.flag >= 64 /\ decoded.flag < 256
    /\ MatchFields(dsrc, decoded.at).bytes_to_copy = 8
    /\ MatchFields(dsrc, decoded.at).lookback = 3
    /\ ddest[decoded.dest_pos] # ddest[decoded.dest_pos - 1]
    /\ ddest[decoded.dest_pos - 1] # ddest[decoded.dest_pos - 2]

(***************************************************************************)
(* Threads.                                                                *)
(***************************************************************************)
\* C28: fork/join discipline.  During compress_wad with thread_count > 1,
\* dest is not written until every worker has been joined; worker i writes
\* only intermediates[i] and never writes the source; the driver reads
\* intermediates[i] only after the join.
ForkJoinDiscipline ==
    [][thread_count > 1 =>
          /\ src' = src
          /\ dest' # dest =>
                 /\ joined = thread_count
                 /\ \A i \in 0..(thread_count - 1) : w[i].st = "exit"
          /\ (stitched' # stitched \/ blk' # blk) => joined = thread_count
          /\ \A i \in 0..(thread_count - 1) :
                 /\ intermediates'[i] # intermediates[i] =>
                        \/ /\ w[i].st = "run" /\ w'[i].st = "exit"
                           /\ joined <= i
                           /\ dest' = dest
                           /\ \A j \in 0..(thread_count - 1) \ {i} :
                                  /\ intermediates'[j] = intermediates[j]
                                  /\ w'[j] = w[j]
                        \/ cpc' = "done"
                 /\ (w[i].st = "run" /\ w'[i] # w[i]) =>
                        /\ dest' = dest
                        /\ \A j \in 0..(thread_count - 1) \ {i} :
                               /\ intermediates'[j] = intermediates[j]
                               /\ w'[j] = w[j]]_vars

\* Two workers have run, both are joined and the packets of both blocks are
\* in dest.
BothBlocksStitched ==
    /\ thread_count = 2
    /\ joined = 2
    /\ cpc = "done"
    /\ \E k \in 1..Len(stitched) : stitched[k].block = 1
    /\ \E k \in 1..Len(stitched) : stitched[k].block = 0

(***************************************************************************)
(* The bytes of the source behind total_size.                              *)
(***************************************************************************)
\* The while loop of decompress_wad_n from src.pos = pos and dest = d on:
\* dest and the error when it ends.
RECURSIVE DecodeLoop(_, _, _, _)
DecodeLoop(s, pos, d, bytes_to_decompress) ==
    IF ~DecodeContinues(s, pos, d, bytes_to_decompress)
    THEN [dest |-> d, status |-> "ok"]
    ELSE LET r == DecodePacket(s, pos, d)
         IN  EvalFirst(r,
                       IF r.status # "ok"
                       THEN [dest |-> r.dest, status |-> r.status]
                       ELSE DecodeLoop(s, r.src_pos, r.dest,
                                       bytes_to_decompress))

\* C29: the result of decompress depends only on the first total_size bytes
\* of src: two source buffers that agree on bytes [0, total_size) and
\* differ only after total_size give the same outcome (same decoded bytes,
\* and an error in one iff an error in the other).
TrailingBytesIgnored ==
    (dpc = "done" /\ HeaderReadable(dsrc) /\ validate_wad(dsrc)) =>
        \A b \in {0, 255} :
            LET other == [i \in 1..Len(dsrc) |->
                             IF i <= HeaderTotalSize(dsrc) THEN dsrc[i]
                             ELSE b]
                r == DecodeLoop(other, HEADER_SIZE, << >>, dn)
            IN  /\ r.dest = ddest
                /\ r.status = dstatus

(***************************************************************************)
(* Termination of the decompressor.                                        *)
(***************************************************************************)
\* C30: decompress_wad_n terminates on every input: every loop iteration
\* strictly increases src.pos (a packet reads at least its flag byte, and
\* the pad realignment skip only moves forward and stops within 0x1000
\* bytes), so the loop either raises an error or exits once
\* src.pos >= total_size.
DecoderTerminates ==
    /\ [][(dpc = "loop" /\ dpc' = "loop") =>
              /\ dsrc_pos' > dsrc_pos
              /\ dsrc_pos' - dsrc_pos < SKIP_WINDOW + MAX_LITERAL_SIZE]_vars
    /\ (dpc = "header") ~> (dpc = "done")
    /\ [](dpc = "done" =>
              (dstatus # "ok" \/ ~DecodeContinues(dsrc, dsrc_pos, ddest, dn)))

\* The call has returned after a pad skip that left src.pos behind the end
\* of the source.
ReturnedAfterSkip ==
    /\ dpc = "done"
    /\ dstatus = "ok"
    /\ decoded.pad
    /\ dsrc_pos > Len(dsrc)

====
